---- MODULE Spec2Model ----
(***************************************************************************)
(* Capture-and-poll analysis workflow of the insuretech map client.        *)
(*                                                                         *)
(* Spec     : the RoofAnalysis job component (setInterval polling with an  *)
(*            AbortController), client/src/components/RoofAnalysis.tsx.    *)
(*            ConstructionAnalysis.tsx has the same stopPolling,           *)
(*            resetAnalysis, startPolling and handleDrawComplete bodies,   *)
(*            and cancelDrawingOnly in addition (CancelDrawingOnly).       *)
(* SpecPdf  : the PdfUploadDropzone polling loop with the MAX_WAIT_TIME    *)
(*            ceiling, client/src/components/PdfUploadDropzone.tsx.        *)
(* SpecMap  : the MapView coordinator, its four interaction modes and the  *)
(*            two analysis panels it mounts, client/src/components/        *)
(*            MapView.tsx with ConstructionAnalysis.tsx.                   *)
(* SpecCanvas: the DrawingCanvas pointer handlers, found in                *)
(*            client/src/components/SloshOverlay.tsx.                      *)
(* SpecAuth : the bearer token cache, client/src/services/eagleViewAuth.ts. *)
(* SpecView : the computations that depend on their arguments only: the    *)
(*            capture region, the progress normalization of the polling    *)
(*            variants and the rendering of a result section.              *)
(*                                                                         *)
(* Numbers reported by the server as `progress` are carried in hundredths  *)
(* (0.42 is 42, 85 is 8500) so that the [0,1] convention and the rounding  *)
(* of normalizeProgress are computed on integers.  An optional field of a  *)
(* response is a sequence of length 0 (absent) or 1 (present).             *)
(* The free-text fields message, stage and lastUpdated of JobState do not  *)
(* influence control flow and are not carried.                             *)
(***************************************************************************)
EXTENDS Integers, Sequences, FiniteSets, TLC

\* ------------------------------------------------------------------ bounds
MaxJobs == 2          \* captures accepted by handleDrawComplete in one run
MaxInFlight == 2      \* progress requests outstanding at the same time
MaxUploads == 1       \* files dropped on the PdfUploadDropzone in one run
MaxPdfInFlight == 2   \* PdfUploadDropzone progress requests outstanding at once

\* --------------------------------------------------------------- constants
NoJob == 0            \* jobId: null
NoResult == 0         \* result: null
NoTimer == 0          \* pollIntervalRef.current: null

Phases == {"idle", "capturing", "queued", "processing", "completed", "error"}

NoError == "null"
ErrMapNotReady == "Map view is not ready for capture."
ErrOutside == "Selection must stay within the map view. Please try again."
ErrNotConfigured == "Roof analysis API is not configured. Set VITE_ROOF_ANALYSIS_API_BASE_URL."
ErrMissingToken == "Missing roof analysis API token. Set VITE_ROOF_ANALYSIS_API_TOKEN."
ErrCapture == "capture failed"
ErrUpload == "upload failed"                \* the body text of a non-2xx response
ErrUploadStatus == "Roof analysis request failed (status)"
ErrNoJobId == "Roof analysis API did not return a job ID"
ErrServer == "server error field"
ErrNetwork == "progress request failed"
ErrAborted == "The operation was aborted."
\* texts the specification expects for a failed job without an error field
ErrMessage == "server message field"
ErrGeneric == "generic failure message"

VARIABLES
  jobState,            \* useState<JobState>: phase, progress, jobId, error, result
  selectedBounds,      \* useState<Bounds|null>: TRUE when a box is stored
  pollIntervalRef,     \* NoTimer, or the jobId the live interval's poll closes over
  abortControllerRef,  \* TRUE when abortControllerRef.current is non-null
  requests,            \* progress requests not yet settled, in order of issue
  flows,               \* handleDrawComplete continuations awaiting capture/upload
  nextJob,             \* number of captures accepted so far
  mounted,             \* FALSE once the unmount cleanup has run
  lastApplied,         \* history: status and result of the poll response the last
                       \* step applied (or NoApplied), and the result stored before
  pdf,                 \* PdfUploadDropzone state, see SpecPdf
  config,              \* useRoofAnalysisApiConfig(): apiConfigured, hasToken
  lastCall,            \* history: what the handleDrawComplete step just taken
                       \* was given and how it ended (or NoCall)
  pollStopped,         \* history: the jobs whose interval was cleared by
                       \* stopPolling or that received a terminal response
  canvas,              \* DrawingCanvas state, see SpecCanvas
  map,                 \* MapView state and its two job panels, see SpecMap
  evaluation,          \* the last computation applied and its value, see SpecView
  auth                 \* services/eagleViewAuth: the token cache, see SpecAuth

roofVars == <<jobState, selectedBounds, pollIntervalRef, abortControllerRef,
              requests, flows, nextJob, mounted, lastApplied, config, lastCall,
              pollStopped>>
vars == <<jobState, selectedBounds, pollIntervalRef, abortControllerRef,
          requests, flows, nextJob, mounted, lastApplied, pdf, config, lastCall,
          canvas, map, evaluation, pollStopped, auth>>

\* ------------------------------------------------------- pure definitions
Max(a, b) == IF a >= b THEN a ELSE b
Min(a, b) == IF a <= b THEN a ELSE b

\* Math.round of a value given in hundredths: floor(x + 0.5)
MathRound(h) == (h + 50) \div 100

\* normalizeProgress without the Math.max(0, Math.min(100, value)) clamp
normalizeProgressUnclamped(value, fallback) ==
  IF Len(value) = 0 THEN fallback
  ELSE LET h == value[1] IN
       IF h <= 100 /\ h >= 0 THEN h
       ELSE MathRound(h)

\* normalizeProgress(value, fallback); value is <<>> or <<hundredths>>
normalizeProgress(value, fallback) ==
  IF Len(value) = 0 THEN fallback
  ELSE LET h == value[1] IN
       IF h <= 100 /\ h >= 0 THEN h
       ELSE MathRound(Max(0, Min(10000, h)))

initialJobState ==
  [phase |-> "idle", progress |-> 0, jobId |-> NoJob, error |-> NoError,
   result |-> NoResult]

\* nextPhase with an unlisted status treated as a failure
nextPhaseUnknownFails(status) ==
  CASE status = "queued" -> "queued"
    [] status = "processing" -> "processing"
    [] status = "completed" -> "completed"
    [] OTHER -> "error"

\* switch (progressData.status) of poll
nextPhase(status) ==
  CASE status = "queued" -> "queued"
    [] status = "processing" -> "processing"
    [] status = "completed" -> "completed"
    [] status = "failed" -> "error"
    [] OTHER -> "processing"

\* pollUpdate with `result: progressData.result` in place of the ?? merge
pollUpdateNullErases(prev, jobId, r) ==
  [phase |-> nextPhase(r.status),
   progress |-> normalizeProgress(r.progress, prev.progress),
   jobId |-> jobId,
   error |-> IF r.error THEN ErrServer ELSE NoError,
   result |-> r.result]

\* the state updater of poll's success path
pollUpdate(prev, jobId, r) ==
  [phase |-> nextPhase(r.status),
   progress |-> normalizeProgress(r.progress, prev.progress),
   jobId |-> jobId,
   error |-> IF r.error THEN ErrServer ELSE NoError,
   result |-> IF r.result # NoResult THEN r.result ELSE prev.result]

\* the catch of poll with `...initialJobState` in place of `...prev`
pollCatchUpdateResets(prev, msg) ==
  [initialJobState EXCEPT !.phase = "error", !.error = msg]

\* the state updater of poll's catch path
pollCatchUpdate(prev, msg) ==
  [prev EXCEPT !.phase = "error", !.error = msg]

\* stopPolling: the part acting on the controller of abortControllerRef.current
abortCurrent(reqs) ==
  [i \in DOMAIN reqs |->
     IF reqs[i].ctl = "current" THEN [reqs[i] EXCEPT !.ctl = "aborted"]
     ELSE reqs[i]]

\* poll(): new AbortController stored in the ref, request issued for jobId
issueRequest(reqs, jobId) ==
  Append([i \in DOMAIN reqs |->
            IF reqs[i].ctl = "current" THEN [reqs[i] EXCEPT !.ctl = "detached"]
            ELSE reqs[i]],
         [jobId |-> jobId, ctl |-> "current", early |-> FALSE])

\* history: requests issued before request i are marked once i's terminal
\* response has been applied
markEarlier(reqs, i) ==
  [k \in DOMAIN reqs |-> IF k < i THEN [reqs[k] EXCEPT !.early = TRUE] ELSE reqs[k]]

RemoveAt(s, i) == [k \in 1..(Len(s) - 1) |-> IF k < i THEN s[k] ELSE s[k + 1]]

\* setJobState is a no-op once the component is unmounted
setJobState(next) == jobState' = IF mounted THEN next ELSE jobState

\* drawingDisabled, the phase part; the parts !apiConfigured and !hasToken
\* are tested again by handleDrawComplete and are modelled there (configError)
drawingDisabled ==
  jobState.phase \in {"capturing", "queued", "processing"}

\* the configuration checks of handleDrawComplete with the token check left out
configErrorTokenUnchecked(c) ==
  IF ~c.apiConfigured THEN ErrNotConfigured ELSE NoError

\* the configuration checks that open handleDrawComplete: the error text, or
\* NoError when the handler goes on
configError(c) ==
  IF ~c.apiConfigured THEN ErrNotConfigured
  ELSE IF ~c.hasToken THEN ErrMissingToken
  ELSE NoError

\* mapRect and the offset of the map element in the container, in pixels
MapWidth == 40
MapHeight == 40
OffsetX == 10
OffsetY == 0

\* clampedBounds with the end edges clamped at 0 only
clampedBoundsEndOpen(bounds, offsetX, offsetY, mapRect) ==
  LET cx == bounds.x - offsetX
      cy == bounds.y - offsetY
      clampStartX == Min(Max(0, cx), mapRect.width)
      clampStartY == Min(Max(0, cy), mapRect.height)
      clampEndX == Max(0, cx + bounds.width)
      clampEndY == Max(0, cy + bounds.height)
  IN [x |-> clampStartX, y |-> clampStartY,
      width |-> clampEndX - clampStartX, height |-> clampEndY - clampStartY]

\* captureBounds and clampedBounds of handleDrawComplete; offsetX and
\* offsetY are mapRect.left - containerRect.left and mapRect.top -
\* containerRect.top
clampedBounds(bounds, offsetX, offsetY, mapRect) ==
  LET cx == bounds.x - offsetX
      cy == bounds.y - offsetY
      clampStartX == Min(Max(0, cx), mapRect.width)
      clampStartY == Min(Max(0, cy), mapRect.height)
      clampEndX == Min(Max(0, cx + bounds.width), mapRect.width)
      clampEndY == Min(Max(0, cy + bounds.height), mapRect.height)
  IN [x |-> clampStartX, y |-> clampStartY,
      width |-> clampEndX - clampStartX, height |-> clampEndY - clampStartY]

\* the same for the map element of Spec
clampBounds(bounds) ==
  clampedBounds(bounds, OffsetX, OffsetY, [width |-> MapWidth, height |-> MapHeight])

\* the rejection test with < in place of <=
selectionOutsideStrict(cb) == cb.width < 0 \/ cb.height < 0

\* if (clampedBounds.width <= 0 || clampedBounds.height <= 0)
selectionOutside(cb) == cb.width <= 0 \/ cb.height <= 0

\* rectangles the canvas may hand over (each side at least MIN_SELECTION_SIZE):
\* inside the map element, cut by its right edge, right of it, left of it,
\* and below it
DrawnBounds ==
  {[x |-> 20, y |-> 10, width |-> 20, height |-> 20],
   [x |-> 40, y |-> 30, width |-> 20, height |-> 20],
   [x |-> 50, y |-> 10, width |-> 10, height |-> 10],
   [x |-> 0, y |-> 10, width |-> 10, height |-> 20],
   [x |-> 20, y |-> 40, width |-> 20, height |-> 10]}

\* how startRoofAnalysis can fail after the request was sent, and the
\* message of the Error the catch of handleDrawComplete receives (why is
\* "capture" when html2canvas rejected instead)
StartFailures == {"non2xx", "non2xxEmptyBody", "noJobId"}
startErrorMessage(why) ==
  CASE why = "non2xx" -> ErrUpload
    [] why = "non2xxEmptyBody" -> ErrUploadStatus
    [] why = "noJobId" -> ErrNoJobId
    [] OTHER -> ErrCapture

\* the catch of handleDrawComplete with `...prev` in place of `...initialJobState`
flowCatchUpdateKeepsJob(prev, msg) ==
  [prev EXCEPT !.phase = "error", !.error = msg]

\* the state set by the catch of handleDrawComplete
flowCatchUpdate(prev, msg) ==
  [initialJobState EXCEPT !.phase = "error", !.error = msg]

\* responses the progress endpoint may send: status is an open string set
\* ("other" stands for any unlisted value); the non-null result payloads are
\* Results; a failed job reports an error text, a message, both or neither
Statuses == {"queued", "processing", "completed", "failed", "other"}
ProgressReports == {<<>>, <<50>>, <<14250>>}
Results == {1, 2}
Responses ==
  [status : Statuses \ {"failed"}, progress : ProgressReports, error : {FALSE},
   message : {FALSE}, result : {NoResult} \cup Results]
  \cup
  [status : {"failed"}, progress : {<<>>}, error : BOOLEAN,
   message : BOOLEAN, result : {NoResult}]
NoCall == [kind |-> "none"]

\* the terminal test of poll with "failed" left out
pollStopsOnCompletedOnly(status) == status = "completed"

\* if (progressData.status === "completed" || progressData.status === "failed")
pollStops(status) == status \in {"completed", "failed"}
NoApplied == [status |-> "none", result |-> NoResult, prevResult |-> NoResult]

\* ------------------------------------------------------------------- Init
\* PdfUploadDropzone: the UploadState fields phase, processingProgress
\* (progress), error and result; hasTouched; pollIntervalRef (ref: 0 or the
\* id of an interval); the live intervals (timers) with the time elapsed
\* since their startTime at their last poll(); the number of outstanding
\* uploadPdf calls and progress requests; loops counts startPolling calls and
\* started counts beginUpload calls.  lastTick is a history field: what the
\* poll() of the last step did ("request", "timeout" or "none") and at which
\* elapsed time.
NoTick == [kind |-> "none", elapsed |-> 0]
PdfIdle ==
  [phase |-> "idle", progress |-> 0, error |-> NoError, result |-> NoResult,
   hasTouched |-> FALSE, ref |-> NoTimer, timers |-> {}, uploads |-> 0,
   inflight |-> 0, loops |-> 0, started |-> 0, mounted |-> TRUE,
   lastTick |-> NoTick]

\* the DrawingCanvas after mount, see SpecCanvas
CanvasIdle ==
  [isDrawing |-> FALSE, startPoint |-> <<>>, preview |-> <<>>, disabled |-> FALSE,
   event |-> [kind |-> "none", drawing |-> FALSE, start |-> <<>>, position |-> <<>>],
   emit |-> <<>>, abandoned |-> FALSE]

\* MapView and its two panels before any interaction, see SpecMap
JobIdle ==
  [phase |-> "idle", jobId |-> NoJob, result |-> NoResult, polling |-> FALSE,
   flow |-> "none", cancelled |-> FALSE]

\* nothing computed yet, see SpecView
NoEvaluation == [fn |-> "none"]

\* eagleViewAuth before the module is evaluated: `let tokenCache = null`.
\* pending holds the `now` of each call awaiting its fetch, issued counts the
\* tokens the server has handed out, last is a history field: what the last
\* step did and returned.
NoAuthCall == [kind |-> "none"]
AuthIdle ==
  [loaded |-> FALSE, authUrl |-> FALSE, apiToken |-> FALSE, tokenCache |-> <<>>,
   now |-> 0, ticks |-> 0, pending |-> <<>>, fetches |-> 0, issued |-> 0,
   last |-> NoAuthCall]

MapInit ==
  [measureMode |-> FALSE, polygonPoints |-> 0, polygonArea |-> FALSE,
   distanceMode |-> FALSE, distancePoints |-> 0, distance |-> FALSE,
   roofAnalysisVisible |-> FALSE, roofAnalysisOverlay |-> FALSE,
   constructionAnalysisVisible |-> FALSE, constructionAnalysisOverlay |-> FALSE,
   isSatelliteView |-> FALSE, streetViewVisible |-> FALSE,
   zoom |-> 12, lastClick |-> "none",
   roof |-> JobIdle, construction |-> JobIdle]

Init ==
  /\ jobState = initialJobState
  /\ selectedBounds = FALSE
  /\ pollIntervalRef = NoTimer
  /\ abortControllerRef = FALSE
  /\ requests = <<>>
  /\ flows = {}
  /\ nextJob = 0
  /\ mounted = TRUE
  /\ lastApplied = NoApplied
  /\ pdf = PdfIdle
  /\ config \in [apiConfigured : BOOLEAN, hasToken : BOOLEAN]
  /\ lastCall = NoCall
  /\ pollStopped = {}
  /\ canvas = CanvasIdle
  /\ map = MapInit
  /\ evaluation = NoEvaluation
  /\ auth = AuthIdle

\* ---------------------------------------------------------------- actions
\* the job whose interval stopPolling clears
timerJob == IF pollIntervalRef = NoTimer THEN {} ELSE {pollIntervalRef}

\* handleDrawComplete returning at its configuration checks
DrawNotConfigured ==
  /\ mounted /\ ~drawingDisabled
  /\ configError(config) # NoError
  /\ jobState' = [initialJobState EXCEPT !.phase = "error",
                                         !.error = configError(config)]
  /\ lastApplied' = NoApplied
  /\ lastCall' = [kind |-> "notConfigured"]
  /\ UNCHANGED <<selectedBounds, pollIntervalRef, abortControllerRef, requests,
                 flows, nextJob, mounted, pdf, config, canvas, map, evaluation, auth>>
  /\ UNCHANGED pollStopped

\* handleDrawComplete, synchronous part, map element missing
DrawMapNotReady ==
  /\ mounted /\ ~drawingDisabled
  /\ configError(config) = NoError
  /\ setJobState([initialJobState EXCEPT !.phase = "error", !.error = ErrMapNotReady])
  /\ lastApplied' = NoApplied
  /\ lastCall' = NoCall
  /\ UNCHANGED <<selectedBounds, pollIntervalRef, abortControllerRef, requests,
                 flows, nextJob, mounted, pdf, config, canvas, map, evaluation, auth>>
  /\ UNCHANGED pollStopped

\* handleDrawComplete, synchronous part: stopPolling, phase capturing, then
\* the clamp of the drawn bounds, which are captured or rejected
DrawComplete(bounds) ==
  /\ mounted /\ ~drawingDisabled
  /\ configError(config) = NoError
  /\ nextJob < MaxJobs
  /\ pollIntervalRef' = NoTimer
  /\ abortControllerRef' = FALSE
  /\ requests' = abortCurrent(requests)
  /\ selectedBounds' = TRUE
  /\ lastApplied' = NoApplied
  /\ lastCall' = [kind |-> "draw", bounds |-> bounds]
  /\ IF ~selectionOutside(clampBounds(bounds))
       THEN /\ jobState' = [phase |-> "capturing", progress |-> 10, jobId |-> NoJob,
                            error |-> NoError, result |-> NoResult]
            /\ nextJob' = nextJob + 1
            /\ flows' = flows \cup {[id |-> nextJob + 1, stage |-> "capture"]}
       ELSE /\ jobState' = [initialJobState EXCEPT !.phase = "error", !.error = ErrOutside]
            /\ UNCHANGED <<nextJob, flows>>
  /\ UNCHANGED <<mounted, pdf, config, canvas, map, evaluation, auth>>
  /\ pollStopped' = pollStopped \cup timerJob

\* html2canvas resolves: phase queued, startRoofAnalysis is called
CaptureSucceeded(f) ==
  /\ f \in flows /\ f.stage = "capture"
  /\ setJobState([jobState EXCEPT !.phase = "queued", !.progress = 15])
  /\ flows' = (flows \ {f}) \cup {[f EXCEPT !.stage = "upload"]}
  /\ lastApplied' = NoApplied
  /\ lastCall' = NoCall
  /\ UNCHANGED <<selectedBounds, pollIntervalRef, abortControllerRef, requests,
                 nextJob, mounted, pdf, config, canvas, map, evaluation, auth>>
  /\ UNCHANGED pollStopped

\* html2canvas rejects (why = "capture") or startRoofAnalysis throws (why in
\* StartFailures): the catch of handleDrawComplete
FlowFailed(f, why) ==
  /\ f \in flows
  /\ (f.stage = "capture") = (why = "capture")
  /\ flows' = flows \ {f}
  /\ pollIntervalRef' = NoTimer
  /\ abortControllerRef' = FALSE
  /\ requests' = abortCurrent(requests)
  /\ setJobState(flowCatchUpdate(jobState, startErrorMessage(why)))
  /\ lastApplied' = NoApplied
  /\ lastCall' = [kind |-> IF why = "capture" THEN "captureFailed" ELSE "startFailed",
                  id |-> f.id, why |-> why]
  /\ UNCHANGED <<selectedBounds, nextJob, mounted, pdf, config, canvas, map, evaluation, auth>>
  /\ pollStopped' = pollStopped \cup timerJob

\* startRoofAnalysis resolves with job_id f.id: state update, then startPolling
UploadSucceeded(f, status) ==
  /\ f \in flows /\ f.stage = "upload"
  /\ Len(requests) < MaxInFlight
  /\ flows' = flows \ {f}
  /\ setJobState([jobState EXCEPT
                    !.phase = IF status = "queued" THEN "queued" ELSE "processing",
                    !.progress = 20, !.jobId = f.id, !.error = NoError])
  /\ requests' = issueRequest(abortCurrent(requests), f.id)
  /\ abortControllerRef' = TRUE
  /\ pollIntervalRef' = f.id
  /\ lastApplied' = NoApplied
  /\ lastCall' = NoCall
  /\ UNCHANGED <<selectedBounds, nextJob, mounted, pdf, config, canvas, map, evaluation, auth>>
  /\ pollStopped' = pollStopped \cup timerJob

\* the interval fires: poll() issues a request without waiting for earlier ones
PollTick ==
  /\ pollIntervalRef # NoTimer
  /\ Len(requests) < MaxInFlight
  /\ requests' = issueRequest(requests, pollIntervalRef)
  /\ abortControllerRef' = TRUE
  /\ lastApplied' = NoApplied
  /\ lastCall' = NoCall
  /\ UNCHANGED <<jobState, selectedBounds, pollIntervalRef, flows, nextJob,
                 mounted, pdf, config, canvas, map, evaluation, auth>>
  /\ UNCHANGED pollStopped

\* fetchRoofAnalysisProgress of request i resolves with response r
PollResponse(i, r) ==
  /\ i \in DOMAIN requests /\ requests[i].ctl # "aborted"
  /\ setJobState(pollUpdate(jobState, requests[i].jobId, r))
  /\ lastApplied' = IF mounted THEN [status |-> r.status, result |-> r.result,
                                              prevResult |-> jobState.result]
                             ELSE NoApplied
  /\ lastCall' = NoCall
  /\ IF pollStops(r.status)
       THEN /\ pollIntervalRef' = NoTimer
            /\ abortControllerRef' = FALSE
            /\ requests' = abortCurrent(RemoveAt(markEarlier(requests, i), i))
       ELSE /\ requests' = RemoveAt(requests, i)
            /\ UNCHANGED <<pollIntervalRef, abortControllerRef>>
  /\ UNCHANGED <<selectedBounds, flows, nextJob, mounted, pdf, config, canvas, map, evaluation, auth>>
  /\ pollStopped' = IF pollStops(r.status)
                      THEN pollStopped \cup timerJob \cup {requests[i].jobId}
                      ELSE pollStopped

\* request i rejects (network failure, non-2xx, or its signal was aborted)
PollRejected(i) ==
  /\ i \in DOMAIN requests
  /\ pollIntervalRef' = NoTimer
  /\ abortControllerRef' = FALSE
  /\ requests' = abortCurrent(RemoveAt(requests, i))
  /\ setJobState(pollCatchUpdate(jobState,
                   IF requests[i].ctl = "aborted" THEN ErrAborted ELSE ErrNetwork))
  /\ lastApplied' = NoApplied
  /\ lastCall' = NoCall
  /\ UNCHANGED <<selectedBounds, flows, nextJob, mounted, pdf, config, canvas, map, evaluation, auth>>
  /\ pollStopped' = pollStopped \cup timerJob

\* resetAnalysis: "Clear analysis" and "Draw again" buttons
resetAnalysis ==
  /\ mounted
  /\ \/ jobState.phase \in {"completed", "error"}
     \/ selectedBounds /\ jobState.phase \notin {"capturing", "queued", "processing"}
  /\ pollIntervalRef' = NoTimer
  /\ abortControllerRef' = FALSE
  /\ requests' = abortCurrent(requests)
  /\ jobState' = initialJobState
  /\ selectedBounds' = FALSE
  /\ lastApplied' = NoApplied
  /\ lastCall' = NoCall
  /\ UNCHANGED <<flows, nextJob, mounted, pdf, config, canvas, map, evaluation, auth>>
  /\ pollStopped' = pollStopped \cup timerJob

\* cancelDrawingOnly of ConstructionAnalysis (run by its overlay effects):
\* stopPolling, then the result is kept and shown as completed, or the job
\* goes back to idle
CancelDrawingOnly ==
  /\ mounted
  /\ pollIntervalRef' = NoTimer
  /\ abortControllerRef' = FALSE
  /\ requests' = abortCurrent(requests)
  /\ setJobState([jobState EXCEPT
                    !.phase = IF jobState.result # NoResult THEN "completed" ELSE "idle",
                    !.progress = IF jobState.result # NoResult THEN 100 ELSE 0,
                    !.jobId = NoJob, !.error = NoError])
  /\ selectedBounds' = FALSE
  /\ lastApplied' = NoApplied
  /\ lastCall' = NoCall
  /\ UNCHANGED <<flows, nextJob, mounted, pdf, config, canvas, map, evaluation, auth>>
  /\ pollStopped' = pollStopped \cup timerJob

\* "Close" button, shown in every phase: resetAnalysis(); onExit().  onExit
\* belongs to the parent, which may show the panel again later; the job
\* component stays mounted until Unmount.
Close ==
  /\ mounted
  /\ pollIntervalRef' = NoTimer
  /\ abortControllerRef' = FALSE
  /\ requests' = abortCurrent(requests)
  /\ jobState' = initialJobState
  /\ selectedBounds' = FALSE
  /\ lastApplied' = NoApplied
  /\ lastCall' = NoCall
  /\ UNCHANGED <<flows, nextJob, mounted, pdf, config, canvas, map, evaluation, auth>>
  /\ pollStopped' = pollStopped \cup timerJob

\* useEffect(() => () => stopPolling(), [stopPolling]); the useState values
\* of an unmounted component are discarded
Unmount ==
  /\ mounted
  /\ mounted' = FALSE
  /\ pollIntervalRef' = NoTimer
  /\ abortControllerRef' = FALSE
  /\ requests' = abortCurrent(requests)
  /\ jobState' = initialJobState
  /\ selectedBounds' = FALSE
  /\ lastApplied' = NoApplied
  /\ lastCall' = NoCall
  /\ UNCHANGED <<flows, nextJob, pdf, config, canvas, map, evaluation, auth>>
  /\ pollStopped' = pollStopped \cup timerJob

Next ==
  \/ DrawNotConfigured
  \/ DrawMapNotReady
  \/ \E bounds \in DrawnBounds : DrawComplete(bounds)
  \/ \E f \in flows : CaptureSucceeded(f)
  \/ \E f \in flows, why \in {"capture"} \cup StartFailures : FlowFailed(f, why)
  \/ \E f \in flows, status \in {"queued", "processing"} : UploadSucceeded(f, status)
  \/ PollTick
  \/ \E i \in DOMAIN requests, r \in Responses : PollResponse(i, r)
  \/ \E i \in DOMAIN requests : PollRejected(i)
  \/ resetAnalysis
  \/ CancelDrawingOnly
  \/ Close
  \/ Unmount

Spec == Init /\ [][Next]_vars

\* ------------------------------------------- PdfUploadDropzone (SpecPdf)
MAX_WAIT_TIME == 300000
POLL_INTERVAL == 2500
\* an interval callback runs at its period or later, never earlier
Lateness == {0, 1250}

ErrTimeout == "Timeout after 5 minutes"
ErrProcessing == "Processing failed"
ErrRejectedFile == "Only PDF files are supported."

PdfStatuses == {"processing", "completed", "failed"}
PdfResponses ==
  [status : PdfStatuses, progress : {<<>>, <<50>>}, error : BOOLEAN,
   result : 0..1]

\* pollTimedOut with >= in place of >
pollTimedOutAtCeiling(elapsed) == elapsed >= MAX_WAIT_TIME

\* const elapsed = Date.now() - startTime; if (elapsed > MAX_WAIT_TIME)
pollTimedOut(elapsed) == elapsed > MAX_WAIT_TIME

\* setState is a no-op once the component is unmounted
pdfSetState(p, phase, progress, error, result) ==
  IF p.mounted
    THEN [p EXCEPT !.phase = phase, !.progress = progress, !.error = error,
                   !.result = result]
    ELSE p

\* if (pollIntervalRef.current) { clearInterval(...); pollIntervalRef.current = null }
pdfClearInterval(p) ==
  [p EXCEPT !.timers = {t \in p.timers : t.id # p.ref}, !.ref = NoTimer]

\* const progressPct = progressData.progress || 0, then the normalization
pdfNormalize(value) == normalizeProgress(IF Len(value) = 0 THEN <<0>> ELSE value, 0)

\* handleDrop with a rejected file
PdfDropRejected ==
  /\ pdf.mounted /\ pdf.phase \notin {"uploading", "processing"}
  /\ pdf' = [pdfSetState(pdf, "error", 0, ErrRejectedFile, NoResult)
               EXCEPT !.lastTick = NoTick]
  /\ UNCHANGED <<roofVars, canvas, map, evaluation, auth>>

\* handleDrop -> beginUpload up to the await of uploadPdf
PdfBeginUpload ==
  /\ pdf.mounted /\ pdf.phase \notin {"uploading", "processing"}
  /\ pdf.started < MaxUploads
  /\ pdf' = [pdfSetState(pdfClearInterval(pdf), "uploading", 0, NoError, NoResult)
               EXCEPT !.hasTouched = TRUE, !.uploads = @ + 1, !.started = @ + 1,
                      !.lastTick = NoTick]
  /\ UNCHANGED <<roofVars, canvas, map, evaluation, auth>>

\* uploadPdf resolves: phase processing, then startPolling: the first poll()
\* runs at elapsed 0 and the interval is stored in pollIntervalRef
PdfUploadSucceeded ==
  /\ pdf.uploads > 0
  /\ pdf.inflight < MaxPdfInFlight
  /\ LET p1 == pdfSetState(pdf, "processing", pdf.progress, pdf.error, pdf.result)
         id == pdf.loops + 1
     IN pdf' = [p1 EXCEPT !.uploads = @ - 1, !.loops = id, !.inflight = @ + 1,
                          !.timers = @ \cup {[id |-> id, elapsed |-> 0]},
                          !.ref = id,
                          !.lastTick = [kind |-> "request", elapsed |-> 0]]
  /\ UNCHANGED <<roofVars, canvas, map, evaluation, auth>>

\* uploadPdf rejects: stopPolling, phase error
PdfUploadFailed ==
  /\ pdf.uploads > 0
  /\ pdf' = [pdfSetState(pdfClearInterval(pdf), "error", pdf.progress, ErrUpload,
                         pdf.result)
               EXCEPT !.uploads = @ - 1, !.lastTick = NoTick]
  /\ UNCHANGED <<roofVars, canvas, map, evaluation, auth>>

\* the interval t fires and runs poll() up to its await
PdfTick(t, late) ==
  /\ t \in pdf.timers
  /\ LET elapsed == IF pollTimedOut(t.elapsed) THEN t.elapsed
                    ELSE t.elapsed + POLL_INTERVAL + late
         aged == [pdf EXCEPT !.timers = (@ \ {t}) \cup {[t EXCEPT !.elapsed = elapsed]}]
     IN IF pollTimedOut(elapsed)
          THEN pdf' = [pdfClearInterval(
                         pdfSetState(aged, "error", pdf.progress, ErrTimeout, pdf.result))
                         EXCEPT !.lastTick = [kind |-> "timeout", elapsed |-> elapsed]]
          ELSE /\ pdf.inflight < MaxPdfInFlight
               /\ pdf' = [aged EXCEPT !.inflight = @ + 1,
                                      !.lastTick = [kind |-> "request", elapsed |-> elapsed]]
  /\ UNCHANGED <<roofVars, canvas, map, evaluation, auth>>

\* fetchProgress resolves with r
PdfResponse(r) ==
  /\ pdf.inflight > 0
  /\ LET p1 == pdfSetState(pdf, pdf.phase, pdfNormalize(r.progress), pdf.error, pdf.result)
         p2 == CASE r.status = "completed" ->
                      pdfClearInterval(pdfSetState(p1, "completed", 100, NoError, r.result))
                 [] r.status = "failed" ->
                      pdfClearInterval(
                        pdfSetState(p1, "error", p1.progress,
                                    IF r.error THEN ErrServer ELSE ErrProcessing, p1.result))
                 [] OTHER -> p1
     IN pdf' = [p2 EXCEPT !.inflight = @ - 1, !.lastTick = NoTick]
  /\ UNCHANGED <<roofVars, canvas, map, evaluation, auth>>

\* fetchProgress rejects: phase error, interval cleared
PdfRejected ==
  /\ pdf.inflight > 0
  /\ pdf' = [pdfClearInterval(pdfSetState(pdf, "error", pdf.progress, ErrNetwork, pdf.result))
               EXCEPT !.inflight = @ - 1, !.lastTick = NoTick]
  /\ UNCHANGED <<roofVars, canvas, map, evaluation, auth>>

\* resetState: the "Clear" button
PdfReset ==
  /\ pdf.mounted /\ pdf.hasTouched /\ pdf.phase \notin {"uploading", "processing"}
  /\ pdf' = [pdfSetState(pdfClearInterval(pdf), "idle", 0, NoError, NoResult)
               EXCEPT !.hasTouched = FALSE, !.lastTick = NoTick]
  /\ UNCHANGED <<roofVars, canvas, map, evaluation, auth>>

\* the unmount cleanup clears the interval and leaves the ref
PdfUnmount ==
  /\ pdf.mounted
  /\ pdf' = [pdf EXCEPT !.mounted = FALSE,
                        !.timers = {t \in pdf.timers : t.id # pdf.ref},
                        !.lastTick = NoTick]
  /\ UNCHANGED <<roofVars, canvas, map, evaluation, auth>>

PdfNext ==
  \/ PdfDropRejected
  \/ PdfBeginUpload
  \/ PdfUploadSucceeded
  \/ PdfUploadFailed
  \/ \E t \in pdf.timers, late \in Lateness : PdfTick(t, late)
  \/ \E r \in PdfResponses : PdfResponse(r)
  \/ PdfRejected
  \/ PdfReset
  \/ PdfUnmount

SpecPdf == Init /\ [][PdfNext]_vars

\* ------------------------------------------------------ MapView (SpecMap)
\* map carries the useState values of MapView (measureMode, polygonPoints as
\* a count, polygonArea and distance as "non-null", the four analysis flags,
\* isSatelliteView for mapTypeId, streetViewVisible) and, for each of the two
\* panels it mounts, what MapView can observe of the panel's job: phase,
\* jobId, result, whether the poll interval runs (polling) and the stage of
\* a pending handleDrawComplete continuation (flow).  cancelled is a history
\* field: cancelDrawingOnly ran while the rasterization of that continuation
\* was pending.
\* overlaysActive is a prop of MapView and an input of the steps reading it.
\* zoom is mapZoom (12 is the default of the zoom prop).  lastClick is a
\* history field: what the last onClick of the map did in area mode.
MaxPoints == 3        \* polygon points counted; MaxPoints stands for "or more"

ZoomLevels == {12, 20, 21}
MIN_ZOOM_FOR_ROOF_ANALYSIS == 21

Panels == {"roof", "construction"}

\* {(roofAnalysisVisible || roofAnalysisOverlay) && <RoofAnalysis .../>} and
\* the same for ConstructionAnalysis
panelMounted(m, k) ==
  IF k = "roof" THEN m.roofAnalysisVisible \/ m.roofAnalysisOverlay
  ELSE m.constructionAnalysisVisible \/ m.constructionAnalysisOverlay

\* the overlayActive prop MapView passes to the panel
overlayActive(m, k) ==
  IF k = "roof" THEN m.roofAnalysisOverlay /\ m.isSatelliteView
  ELSE m.constructionAnalysisOverlay

panelJob(m, k) == IF k = "roof" THEN m.roof ELSE m.construction

withJob(m, k, j) ==
  IF k = "roof" THEN [m EXCEPT !.roof = j] ELSE [m EXCEPT !.construction = j]

\* drawingDisabled of the panel (the API is configured here)
panelDrawingDisabled(m, k) ==
  IF k = "roof" THEN m.roof.phase \in {"capturing", "queued", "processing"}
  ELSE \/ ~m.streetViewVisible
       \/ m.construction.phase \in {"queued", "processing"}

\* cancelDrawingOnly: stopPolling, the state update, then onOverlayCancel
cancelDrawingOnly(j) ==
  [j EXCEPT !.phase = IF j.result # NoResult THEN "completed" ELSE "idle",
            !.jobId = NoJob, !.polling = FALSE,
            !.cancelled = (j.flow = "capture")]

\* a panel whose two flags are false is unmounted: its cleanup runs
\* stopPolling and its state is gone (what its pending continuation still
\* does is followed in Spec, see Unmount)
unmountHidden(m) ==
  [m EXCEPT !.roof = IF panelMounted(m, "roof") THEN @ ELSE JobIdle,
            !.construction = IF panelMounted(m, "construction") THEN @ ELSE JobIdle]

\* the two overlay effects of ConstructionAnalysis, run after a render in
\* which overlayActive or isStreetViewVisible changed; prev is the state
\* before the step (previousOverlayRef.current)
constructionEffects(prev, m) ==
  IF /\ panelMounted(m, "construction")
     /\ \/ m.constructionAnalysisOverlay /\ ~m.streetViewVisible
        \/ /\ prev.constructionAnalysisOverlay /\ ~m.constructionAnalysisOverlay
           /\ m.construction.phase = "capturing"
    THEN [m EXCEPT !.construction = cancelDrawingOnly(@),
                   !.constructionAnalysisOverlay = FALSE]
    ELSE m

\* the state MapView and its panels settle in after a handler set m
rendered(prev, m) == unmountHidden(constructionEffects(prev, unmountHidden(m)))

\* the visible_changed listener of the street view
streetViewListener(m, visible) ==
  IF visible
    THEN [m EXCEPT !.streetViewVisible = TRUE, !.roofAnalysisVisible = FALSE,
                   !.roofAnalysisOverlay = FALSE]
    ELSE [m EXCEPT !.streetViewVisible = FALSE,
                   !.constructionAnalysisOverlay = FALSE,
                   !.constructionAnalysisVisible = FALSE]

\* exitStreetView: setVisible(false) fires the listener
exitStreetView(m) ==
  IF m.streetViewVisible THEN streetViewListener(m, FALSE) ELSE m

openRoofAnalysis(m, overlaysActive) ==
  IF ~m.isSatelliteView \/ overlaysActive THEN m
  ELSE [exitStreetView(m) EXCEPT
          !.roofAnalysisVisible = TRUE, !.roofAnalysisOverlay = TRUE,
          !.constructionAnalysisVisible = FALSE,
          !.constructionAnalysisOverlay = FALSE]

\* openConstructionAnalysis without the two calls that close the roof analysis
openConstructionAnalysisKeepsRoof(m, overlaysActive) ==
  IF overlaysActive THEN m
  ELSE [m EXCEPT
          !.constructionAnalysisVisible = TRUE,
          !.constructionAnalysisOverlay = TRUE]

openConstructionAnalysis(m, overlaysActive) ==
  IF overlaysActive THEN m
  ELSE [m EXCEPT
          !.constructionAnalysisVisible = TRUE,
          !.constructionAnalysisOverlay = TRUE,
          !.roofAnalysisVisible = FALSE, !.roofAnalysisOverlay = FALSE]

\* roofDisabled of MapControls (currentZoom is mapZoom)
roofDisabled(m, overlaysActive) ==
  overlaysActive \/ ~m.isSatelliteView \/ m.zoom < MIN_ZOOM_FOR_ROOF_ANALYSIS

\* the isCloseToStart test without the `polygonPoints.length < 3` guard
isCloseToStartAnyCount(m, near) == near

\* isCloseToStart(point); near is the outcome of `distance < threshold`
isCloseToStart(m, near) ==
  IF m.polygonPoints < 3 THEN FALSE ELSE near

\* onClick whose second distance point leaves distanceMode on
onClickKeepsDistanceMode(m, near) ==
  LET closes == m.measureMode /\ isCloseToStart(m, near)
      m1 == IF ~m.measureMode THEN m
            ELSE IF closes
              THEN [m EXCEPT !.polygonArea = TRUE, !.measureMode = FALSE,
                             !.lastClick = "closed"]
              ELSE [m EXCEPT !.polygonPoints = Min(MaxPoints, @ + 1),
                             !.lastClick = "appended"]
  IN IF closes \/ ~m.distanceMode THEN m1
     ELSE IF m.distancePoints = 0
       THEN [m1 EXCEPT !.distancePoints = 1]
     ELSE IF m.distancePoints = 1
       THEN [m1 EXCEPT !.distancePoints = 2, !.distance = TRUE]
     ELSE m1

\* onClick of the map for a click that carries a latLng (one without only
\* closes the context menu)
onClick(m, near) ==
  LET closes == m.measureMode /\ isCloseToStart(m, near)
      m1 == IF ~m.measureMode THEN m
            ELSE IF closes
              THEN [m EXCEPT !.polygonArea = TRUE, !.measureMode = FALSE,
                             !.lastClick = "closed"]
              ELSE [m EXCEPT !.polygonPoints = Min(MaxPoints, @ + 1),
                             !.lastClick = "appended"]
  IN IF closes \/ ~m.distanceMode THEN m1
     ELSE IF m.distancePoints = 0
       THEN [m1 EXCEPT !.distancePoints = 1]
     ELSE IF m.distancePoints = 1
       THEN [m1 EXCEPT !.distancePoints = 2, !.distance = TRUE,
                       !.distanceMode = FALSE]
     ELSE m1

\* the conditions under which the two result panels (each with its "Clear"
\* button) are rendered
areaPanelShown(m) == m.polygonArea /\ ~m.distance
distancePanelShown(m) == m.distance /\ ~m.polygonArea

mapFrame == <<roofVars, pdf, canvas, evaluation, auth>>

\* context menu entry "Measure area"
MeasureArea ==
  /\ ~map.measureMode /\ ~map.distanceMode
  /\ map' = [map EXCEPT !.measureMode = TRUE, !.polygonPoints = 0,
                        !.polygonArea = FALSE]
  /\ UNCHANGED mapFrame

\* context menu entry "Measure distance"
MeasureDistance ==
  /\ ~map.measureMode /\ ~map.distanceMode
  /\ map' = [map EXCEPT !.distanceMode = TRUE, !.distancePoints = 0,
                        !.distance = FALSE]
  /\ UNCHANGED mapFrame

\* onClick of the map; closeToStart is isCloseToStart's distance test
MapClick(closeToStart) ==
  /\ map.measureMode \/ map.distanceMode
  /\ map' = onClick(map, closeToStart)
  /\ UNCHANGED mapFrame

\* context menu entries "Cancel area measurement" / "Finish area measurement"
CancelMeasure ==
  /\ map.measureMode
  /\ map' = [map EXCEPT !.measureMode = FALSE, !.polygonPoints = 0,
                        !.polygonArea = FALSE]
  /\ UNCHANGED mapFrame

FinishMeasure ==
  /\ map.measureMode /\ map.polygonPoints >= 3
  /\ map' = [map EXCEPT !.polygonArea = TRUE, !.measureMode = FALSE]
  /\ UNCHANGED mapFrame

\* context menu entry "Cancel distance measurement"
CancelDistance ==
  /\ map.distanceMode
  /\ map' = [map EXCEPT !.distanceMode = FALSE, !.distancePoints = 0,
                        !.distance = FALSE]
  /\ UNCHANGED mapFrame

\* the "Clear" buttons of the two result panels
ClearMeasurement ==
  /\ \/ /\ areaPanelShown(map)
        /\ map' = [map EXCEPT !.polygonArea = FALSE, !.polygonPoints = 0]
     \/ /\ distancePanelShown(map)
        /\ map' = [map EXCEPT !.distance = FALSE, !.distancePoints = 0]
  /\ UNCHANGED mapFrame

\* the keydown handler for "Escape"
Escape ==
  /\ LET m1 == IF map.measureMode
                 THEN [map EXCEPT !.measureMode = FALSE, !.polygonPoints = 0,
                                  !.polygonArea = FALSE]
                 ELSE map
         m2 == IF map.distanceMode
                 THEN [m1 EXCEPT !.distanceMode = FALSE, !.distancePoints = 0,
                                 !.distance = FALSE]
                 ELSE m1
         m3 == IF map.roofAnalysisOverlay
                 THEN [m2 EXCEPT !.roofAnalysisOverlay = FALSE] ELSE m2
         m4 == IF map.constructionAnalysisOverlay
                 THEN [m3 EXCEPT !.constructionAnalysisOverlay = FALSE] ELSE m3
     IN map' = IF map.polygonArea
                 THEN [map EXCEPT !.polygonArea = FALSE, !.polygonPoints = 0]
               ELSE IF map.distance
                 THEN [map EXCEPT !.distance = FALSE, !.distancePoints = 0]
               ELSE rendered(map, m4)
  /\ UNCHANGED mapFrame

\* "Run Roof Analysis" of MapControls: `if (roofDisabled) return;`
OpenRoofAnalysis(overlaysActive) ==
  /\ ~roofDisabled(map, overlaysActive)
  /\ map' = rendered(map, openRoofAnalysis(map, overlaysActive))
  /\ UNCHANGED mapFrame

\* context menu entry "Roof Analysis" (shown with the two measure entries,
\* disabled when !isSatelliteView)
ContextMenuRoofAnalysis(overlaysActive) ==
  /\ ~map.measureMode /\ ~map.distanceMode
  /\ map.isSatelliteView
  /\ map' = rendered(map, openRoofAnalysis(map, overlaysActive))
  /\ UNCHANGED mapFrame

\* onZoomChanged of the map
ZoomChanged(zoom) ==
  /\ map' = [map EXCEPT !.zoom = zoom]
  /\ UNCHANGED mapFrame

\* "Run Construction Analysis" of MapControls or the context menu entry
OpenConstructionAnalysis(overlaysActive) ==
  /\ map' = rendered(map, openConstructionAnalysis(map, overlaysActive))
  /\ UNCHANGED mapFrame

\* handleMapTypeChange(nextType)
MapTypeChange(satellite) ==
  /\ map' = rendered(map,
              IF satellite THEN [map EXCEPT !.isSatelliteView = TRUE]
              ELSE [map EXCEPT !.isSatelliteView = FALSE,
                               !.roofAnalysisOverlay = FALSE,
                               !.constructionAnalysisOverlay = FALSE])
  /\ UNCHANGED mapFrame

\* the user enters or leaves street view: visible_changed
StreetViewChanged ==
  /\ map' = rendered(map, streetViewListener(map, ~map.streetViewVisible))
  /\ UNCHANGED mapFrame

\* handleDrawComplete of panel k up to its first await (capture accepted);
\* one continuation per panel is followed at a time
PanelDrawComplete(k) ==
  /\ panelMounted(map, k) /\ overlayActive(map, k)
  /\ ~panelDrawingDisabled(map, k)
  /\ panelJob(map, k).flow = "none"
  /\ map' = withJob(map, k, [JobIdle EXCEPT !.phase = "capturing", !.flow = "capture"])
  /\ UNCHANGED mapFrame

\* html2canvas resolves: phase queued, the start request is sent
PanelCaptureDone(k) ==
  /\ panelMounted(map, k) /\ panelJob(map, k).flow = "capture"
  /\ map' = withJob(map, k, [panelJob(map, k) EXCEPT !.phase = "queued", !.flow = "upload"])
  /\ UNCHANGED mapFrame

\* the start request resolves: jobId stored, (ConstructionAnalysis only)
\* onOverlayCancel, then startPolling
PanelUploadDone(k) ==
  /\ panelMounted(map, k) /\ panelJob(map, k).flow = "upload"
  /\ LET j == [panelJob(map, k) EXCEPT !.phase = "processing", !.jobId = 1,
                                       !.polling = TRUE, !.flow = "none"]
         m == withJob(map, k, j)
     IN map' = rendered(map,
                 IF k = "construction"
                   THEN [m EXCEPT !.constructionAnalysisOverlay = FALSE]
                   ELSE m)
  /\ UNCHANGED mapFrame

\* html2canvas or the start request rejects: the catch of handleDrawComplete
PanelFlowFailed(k) ==
  /\ panelMounted(map, k) /\ panelJob(map, k).flow # "none"
  /\ map' = withJob(map, k, [JobIdle EXCEPT !.phase = "error",
                                            !.cancelled = panelJob(map, k).cancelled])
  /\ UNCHANGED mapFrame

\* a progress response for the polled job
PanelPollResponse(k, status) ==
  /\ panelMounted(map, k) /\ panelJob(map, k).polling
  /\ LET j == panelJob(map, k)
     IN map' = withJob(map, k,
                 CASE status = "completed" ->
                        [j EXCEPT !.phase = "completed", !.result = 1, !.polling = FALSE]
                   [] status = "failed" ->
                        [j EXCEPT !.phase = "error", !.polling = FALSE]
                   [] OTHER -> [j EXCEPT !.phase = "processing"])
  /\ UNCHANGED mapFrame

\* "Clear analysis": resetAnalysis
PanelClear(k) ==
  /\ panelMounted(map, k) /\ panelJob(map, k).phase \in {"completed", "error"}
  /\ map' = withJob(map, k, [JobIdle EXCEPT !.flow = panelJob(map, k).flow,
                                            !.cancelled = panelJob(map, k).cancelled])
  /\ UNCHANGED mapFrame

\* "Start drawing" / "Draw again" of ConstructionAnalysis:
\* resetAnalysis(); onRequestDraw()
PanelRequestDraw(overlaysActive) ==
  /\ panelMounted(map, "construction")
  /\ ~panelDrawingDisabled(map, "construction")
  /\ LET j == map.construction
         m == [map EXCEPT !.construction = [JobIdle EXCEPT !.flow = j.flow,
                                                           !.cancelled = j.cancelled]]
     IN map' = rendered(map, openConstructionAnalysis(m, overlaysActive))
  /\ UNCHANGED mapFrame

\* "Close" of panel k: resetAnalysis(); onExit(), which is
\* closeRoofAnalysis / closeConstructionAnalysis
PanelClose(k) ==
  /\ panelMounted(map, k)
  /\ map' = rendered(map,
              IF k = "roof"
                THEN [map EXCEPT !.roofAnalysisOverlay = FALSE,
                                 !.roofAnalysisVisible = FALSE]
                ELSE [map EXCEPT !.constructionAnalysisOverlay = FALSE,
                                 !.constructionAnalysisVisible = FALSE])
  /\ UNCHANGED mapFrame

MapNext ==
  \/ MeasureArea
  \/ MeasureDistance
  \/ \E closeToStart \in BOOLEAN : MapClick(closeToStart)
  \/ CancelMeasure
  \/ FinishMeasure
  \/ CancelDistance
  \/ ClearMeasurement
  \/ Escape
  \/ \E overlaysActive \in BOOLEAN : OpenRoofAnalysis(overlaysActive)
  \/ \E overlaysActive \in BOOLEAN : ContextMenuRoofAnalysis(overlaysActive)
  \/ \E zoom \in ZoomLevels : ZoomChanged(zoom)
  \/ \E overlaysActive \in BOOLEAN : OpenConstructionAnalysis(overlaysActive)
  \/ \E satellite \in BOOLEAN : MapTypeChange(satellite)
  \/ StreetViewChanged
  \/ \E k \in Panels : PanelDrawComplete(k)
  \/ \E k \in Panels : PanelCaptureDone(k)
  \/ \E k \in Panels : PanelUploadDone(k)
  \/ \E k \in Panels : PanelFlowFailed(k)
  \/ \E k \in Panels, status \in {"processing", "completed", "failed"} :
       PanelPollResponse(k, status)
  \/ \E k \in Panels : PanelClear(k)
  \/ \E overlaysActive \in BOOLEAN : PanelRequestDraw(overlaysActive)
  \/ \E k \in Panels : PanelClose(k)

SpecMap == Init /\ [][MapNext]_vars

\* -------------------------------------------------- DrawingCanvas (SpecCanvas)
\* canvas carries isDrawingRef and startPointRef (<<>> for null), what is
\* painted on the canvas (preview: <<>> after clearCanvas, else the bounds
\* last given to drawBounds), and the disabled prop.  History fields: event
\* is the pointer event the last step handled, with the refs as they were
\* before it; emit is the call of onDrawComplete that step made (<<>> for
\* none); abandoned holds from a pointerleave that ended a drag until the
\* next accepted pointerdown.
MIN_SELECTION_SIZE == 10

\* pointer positions relative to the canvas, in pixels
Coords == {0, 5, 15}
Points == [x : Coords, y : Coords]

Abs(n) == IF n < 0 THEN -n ELSE n

NoEvent == [kind |-> "none", drawing |-> FALSE, start |-> <<>>, position |-> <<>>]

\* the bounds of handlePointerMove / handlePointerUp anchored at the start
\* point instead of the top-left corner
dragBoundsFromStart(start, position) ==
  [x |-> start.x, y |-> start.y,
   width |-> Abs(position.x - start.x), height |-> Abs(position.y - start.y)]

\* the bounds computed by handlePointerMove and handlePointerUp
dragBounds(start, position) ==
  [x |-> Min(start.x, position.x), y |-> Min(start.y, position.y),
   width |-> Abs(position.x - start.x), height |-> Abs(position.y - start.y)]

\* the size test of handlePointerUp with && in place of ||
tooSmallBoth(bounds) ==
  bounds.width < MIN_SELECTION_SIZE /\ bounds.height < MIN_SELECTION_SIZE

\* bounds.width < MIN_SELECTION_SIZE || bounds.height < MIN_SELECTION_SIZE
tooSmall(bounds) ==
  bounds.width < MIN_SELECTION_SIZE \/ bounds.height < MIN_SELECTION_SIZE

\* handlePointerLeave without `isDrawingRef.current = false`
handlePointerLeaveKeepsDrag(c) ==
  IF ~c.isDrawing THEN c
  ELSE [c EXCEPT !.preview = <<>>, !.abandoned = TRUE]

handlePointerLeave(c) ==
  IF ~c.isDrawing THEN c
  ELSE [c EXCEPT !.isDrawing = FALSE, !.startPoint = <<>>, !.preview = <<>>,
                 !.abandoned = TRUE]

handlePointerDown(c, position) ==
  IF c.disabled THEN c
  ELSE [c EXCEPT !.startPoint = <<position>>, !.isDrawing = TRUE,
                 !.abandoned = FALSE]

handlePointerMove(c, position) ==
  IF ~c.isDrawing \/ c.startPoint = <<>> THEN c
  ELSE [c EXCEPT !.preview = <<dragBounds(c.startPoint[1], position)>>]

handlePointerUp(c, position) ==
  IF ~c.isDrawing \/ c.startPoint = <<>> THEN c
  ELSE LET bounds == dragBounds(c.startPoint[1], position)
       IN IF tooSmall(bounds)
            THEN [c EXCEPT !.isDrawing = FALSE, !.startPoint = <<>>,
                           !.preview = <<>>]
            ELSE [c EXCEPT !.isDrawing = FALSE, !.startPoint = <<>>,
                           !.preview = <<bounds>>, !.emit = <<bounds>>]

\* the record of the event being handled, taken before the handler runs
handling(kind, position) ==
  [canvas EXCEPT !.emit = <<>>,
                 !.event = [kind |-> kind, drawing |-> canvas.isDrawing,
                            start |-> canvas.startPoint, position |-> position]]

canvasFrame == <<roofVars, pdf, map, evaluation, auth>>

PointerDown(position) ==
  /\ canvas' = handlePointerDown(handling("down", <<position>>), position)
  /\ UNCHANGED canvasFrame

PointerMove(position) ==
  /\ canvas' = handlePointerMove(handling("move", <<position>>), position)
  /\ UNCHANGED canvasFrame

PointerUp(position) ==
  /\ canvas' = handlePointerUp(handling("up", <<position>>), position)
  /\ UNCHANGED canvasFrame

PointerLeave ==
  /\ canvas' = handlePointerLeave(handling("leave", <<>>))
  /\ UNCHANGED canvasFrame

\* the parent re-renders the canvas with another value of disabled
SetDisabled(disabled) ==
  /\ canvas.disabled # disabled
  /\ canvas' = [canvas EXCEPT !.disabled = disabled, !.emit = <<>>, !.event = NoEvent]
  /\ UNCHANGED canvasFrame

CanvasNext ==
  \/ \E position \in Points : PointerDown(position)
  \/ \E position \in Points : PointerMove(position)
  \/ \E position \in Points : PointerUp(position)
  \/ PointerLeave
  \/ \E disabled \in BOOLEAN : SetDisabled(disabled)

SpecCanvas == Init /\ [][CanvasNext]_vars

\* ------------------------------------------------- computations (SpecView)
\* The computations of the panels that depend on their arguments only, each
\* applied once to arguments drawn from bounded sets; evaluation records the
\* arguments and the value.
MaxCell == 3          \* largest coordinate and extent of a rectangle

\* rectangles the canvas hands over (Math.abs extents, never empty), the
\* offset of the map element in its container and the size of the map element
ViewportRects == [x : 0..MaxCell, y : 0..MaxCell, width : 1..MaxCell, height : 1..MaxCell]
Offsets == -1..1
MapRects == [width : 1..MaxCell, height : 1..MaxCell]

\* `progress` values of a response, in hundredths: missing, 0, 0.42, 1, 1.5,
\* 85, 85.5, 142 and -5; and the progress stored before
ProgressValues ==
  {<<>>, <<0>>, <<42>>, <<100>>, <<150>>, <<8500>>, <<8550>>, <<14200>>, <<-500>>}
StoredProgress == {0, 20, 50}

\* updateProcessingState of the setTimeout-chained dropzone: nextProgress, in
\* hundredths (it neither scales nor rounds)
nextProgress(value, prev) ==
  IF Len(value) = 0 THEN prev * 100 ELSE Max(0, Min(10000, value[1]))

\* a section of a result: the key is absent or holds an object whose scalar
\* fields are undefined, "" or a value and whose list fields are undefined,
\* [] or a list of items
ScalarFields == 1..2
ListFields == 1..2
Sections ==
  [present : BOOLEAN,
   scalars : [ScalarFields -> {"undefined", "empty", "value"}],
   lists : [ListFields -> {"undefined", "empty", "items"}]]

\* the placeholder of a scalar row (U+2014)
Dash == "em dash"

\* renderBadgeList(items)
renderBadgeList(items) ==
  IF items \in {"undefined", "empty"} THEN "None noted" ELSE "badges"

\* the "Quality assessment" section of RoofAnalysis: {roofAnalysis.quality &&
\* ...}, overall_rating || Dash, condition_score ?? Dash, two badge lists
renderRoofSection(section) ==
  IF ~section.present THEN [shown |-> FALSE]
  ELSE [shown |-> TRUE,
        rows |-> [i \in ScalarFields |->
                    IF i = 1
                      THEN IF section.scalars[i] = "value" THEN "value" ELSE Dash
                      ELSE IF section.scalars[i] = "undefined" THEN Dash
                           ELSE section.scalars[i]],
        lists |-> [i \in ListFields |-> renderBadgeList(section.lists[i])]]

\* an entry of sectionRows of ConstructionAnalysis: filter(Boolean(section)),
\* pairs.filter(value !== undefined && value !== null && value !== ""), the
\* list fields through renderBadgeList
renderConstructionSection(section) ==
  IF ~section.present THEN [shown |-> FALSE]
  ELSE [shown |-> TRUE,
        rows |-> [i \in ScalarFields |->
                    IF section.scalars[i] \in {"undefined", "empty"}
                      THEN "omitted" ELSE "value"],
        lists |-> [i \in ListFields |-> renderBadgeList(section.lists[i])]]

\* A Content-Disposition header is absent or a list of parameters after
\* the disposition type: filename="...", filename*=UTF-8''... or another
\* parameter.  A string built by concatenation is the sequence of its pieces.
MaxParams == 3        \* parameters of a Content-Disposition header

PlainNames == {"a.pdf"}
EncodedNames == {"report.pdf", "my%20report.pdf", "100%.pdf"}
Params ==
  {[kind |-> "other", value |-> "size=1"]}
    \cup [kind : {"plain"}, value : PlainNames]
    \cup [kind : {"ext"}, value : EncodedNames]
Headers ==
  {[present |-> FALSE, params |-> <<>>]}
    \cup [present : {TRUE},
          params : UNION {[1..n -> Params] : n \in 0..MaxParams}]

\* decodeURIComponent of one piece, and whether it throws URIError
malformed(piece) == piece = "100%.pdf"
decodeURIComponent(piece) ==
  IF piece = "my%20report.pdf" THEN "my report.pdf" ELSE piece

\* the header text of a parameter that follows another one
paramText(param) ==
  CASE param.kind = "plain" -> "; filename=\"a.pdf\""
    [] param.kind = "ext" -> "; filename*=UTF-8''"
    [] OTHER -> "; size=1"
paramPieces(param) ==
  IF param.kind = "ext" THEN <<paramText(param), param.value>>
  ELSE <<paramText(param)>>

RECURSIVE restPieces(_, _)
restPieces(params, i) ==
  IF i > Len(params) THEN <<>>
  ELSE paramPieces(params[i]) \o restPieces(params, i + 1)

\* disposition.match(CONTENT_DISPOSITION_FILENAME): the leftmost parameter
\* that one of the two alternatives matches (0 when there is none)
firstMatch(params) ==
  LET hits == {i \in 1..Len(params) : params[i].kind \in {"plain", "ext"}}
  IN IF hits = {} THEN 0 ELSE CHOOSE i \in hits : \A j \in hits : i <= j

\* decodeContentDisposition: group 1 is (.+), which runs to the end of the
\* header; group 2 is [^";]+, trimmed; <<>> stands for null
decodeContentDisposition(header) ==
  IF ~header.present THEN <<>>
  ELSE LET i == firstMatch(header.params) IN
       IF i = 0 THEN <<>>
       ELSE IF header.params[i].kind = "ext"
         THEN LET encoded == <<header.params[i].value>> \o restPieces(header.params, i + 1)
              IN IF \E k \in 1..Len(encoded) : malformed(encoded[k]) THEN encoded
                 ELSE [k \in 1..Len(encoded) |-> decodeURIComponent(encoded[k])]
         ELSE <<header.params[i].value>>

\* const filename = disposition || `${jobId}.pdf`
reportFilename(header, jobId) ==
  LET disposition == decodeContentDisposition(header)
  IN IF disposition = <<>> THEN <<jobId, ".pdf">> ELSE disposition

viewFrame == <<roofVars, pdf, canvas, map, auth>>

\* handleDrawComplete from the rects to the html2canvas call (or the
\* rejection before it)
CaptureRegion(bounds, offsetX, offsetY, mapRect) ==
  /\ LET cb == clampedBounds(bounds, offsetX, offsetY, mapRect)
     IN evaluation' = [fn |-> "clampedBounds", bounds |-> bounds,
                       offsetX |-> offsetX, offsetY |-> offsetY,
                       mapRect |-> mapRect, region |-> cb,
                       rasterized |-> ~selectionOutside(cb)]
  /\ UNCHANGED viewFrame

\* the progress stored for a response by RoofAnalysis (and
\* ConstructionAnalysis), by PdfUploadDropzone, and by the chained dropzone
\* (in hundredths)
NormalizeProgress(value, prev) ==
  /\ evaluation' = [fn |-> "progress", value |-> value, prev |-> prev,
                    roof |-> normalizeProgress(value, prev),
                    pdf |-> pdfNormalize(value),
                    chained |-> nextProgress(value, prev)]
  /\ UNCHANGED viewFrame

\* a result section rendered by panel k
RenderSection(k, section) ==
  /\ evaluation' = [fn |-> "render", kind |-> k, section |-> section,
                    view |-> IF k = "roof" THEN renderRoofSection(section)
                             ELSE renderConstructionSection(section)]
  /\ UNCHANGED viewFrame

\* one computation is applied in a behaviour
\* downloadConstructionAnalysisReport(jobId) for a 2xx response
DownloadReport(header) ==
  /\ evaluation' = [fn |-> "download", header |-> header,
                    filename |-> reportFilename(header, "job-1")]
  /\ UNCHANGED viewFrame

ViewNext ==
  \/ /\ evaluation = NoEvaluation
     /\ \E bounds \in ViewportRects, offsetX \in Offsets, offsetY \in Offsets,
           mapRect \in MapRects : CaptureRegion(bounds, offsetX, offsetY, mapRect)
  \/ /\ evaluation = NoEvaluation
     /\ \E value \in ProgressValues, prev \in StoredProgress :
          NormalizeProgress(value, prev)
  \/ /\ evaluation = NoEvaluation
     /\ \E k \in Panels, section \in Sections : RenderSection(k, section)
  \/ /\ evaluation = NoEvaluation
     /\ \E header \in Headers : DownloadReport(header)

SpecView == Init /\ [][ViewNext]_vars

\* ------------------------------------------- services/eagleViewAuth (SpecAuth)
\* The module-level token cache.  Times are milliseconds (Date.now()); a
\* fetch in flight is kept with the `now` its call read; the access_token of
\* the n-th answer of the auth server is n.
MaxTicks == 4         \* clock steps in one run
MaxFetches == 3       \* token requests issued in one run
MaxAuthInFlight == 2  \* token requests outstanding at the same time
\* the clock is observed every 30 seconds
ClockStep == 30 * 1000
\* expires_in values of a token response, in seconds
ExpiresIn == {30, 60, 90, 120}

\* expiresAt with the 60 second margin left out
tokenExpiresAtNoMargin(now, expires_in) == now + expires_in * 1000

\* const expiresAt = now + (data.expires_in - 60) * 1000
tokenExpiresAt(now, expires_in) == now + (expires_in - 60) * 1000

\* tokenCache && tokenCache.expiresAt > now
tokenCacheValid(a) ==
  Len(a.tokenCache) = 1 /\ a.tokenCache[1].expiresAt > a.now

\* !authUrl || !apiToken
authConfigured(a) == a.authUrl /\ a.apiToken

authFrame == <<roofVars, pdf, canvas, map, evaluation>>

\* the module is evaluated: authUrl and apiToken are read from the environment
AuthLoad(authUrl, apiToken) ==
  /\ ~auth.loaded
  /\ auth' = [auth EXCEPT !.loaded = TRUE, !.authUrl = authUrl, !.apiToken = apiToken]
  /\ UNCHANGED authFrame

\* getEagleViewBearerToken() up to its return or to the await of fetch
GetEagleViewBearerToken ==
  /\ auth.loaded
  /\ IF ~authConfigured(auth)
       THEN auth' = [auth EXCEPT !.last = [kind |-> "call", returned |-> <<>>,
                                           requested |-> FALSE]]
     ELSE IF tokenCacheValid(auth)
       THEN auth' = [auth EXCEPT !.last = [kind |-> "call",
                                           returned |-> <<auth.tokenCache[1].token>>,
                                           requested |-> FALSE]]
     ELSE /\ auth.fetches < MaxFetches
          /\ Len(auth.pending) < MaxAuthInFlight
          /\ auth' = [auth EXCEPT !.pending = Append(@, auth.now),
                                  !.fetches = @ + 1,
                                  !.last = [kind |-> "call", returned |-> <<>>,
                                            requested |-> TRUE]]
  /\ UNCHANGED authFrame

\* the fetch of pending call i resolves with response.ok and a token body:
\* the cache is written and the token returned
TokenFetched(i, expires_in) ==
  /\ i \in DOMAIN auth.pending
  /\ LET token == auth.issued + 1
         now == auth.pending[i]
     IN auth' = [auth EXCEPT
                   !.pending = SubSeq(@, 1, i - 1) \o SubSeq(@, i + 1, Len(@)),
                   !.issued = token,
                   !.tokenCache = <<[token |-> token,
                                     expiresAt |-> tokenExpiresAt(now, expires_in)]>>,
                   !.last = [kind |-> "fetched", returned |-> <<token>>,
                             start |-> now, expires_in |-> expires_in]]
  /\ UNCHANGED authFrame

\* the fetch of pending call i rejects, or the response is not ok, or its
\* body is not JSON: the catch returns null
TokenFetchFailed(i) ==
  /\ i \in DOMAIN auth.pending
  /\ auth' = [auth EXCEPT
                !.pending = SubSeq(@, 1, i - 1) \o SubSeq(@, i + 1, Len(@)),
                !.last = [kind |-> "failed", returned |-> <<>>]]
  /\ UNCHANGED authFrame

\* clearTokenCache()
ClearTokenCache ==
  /\ auth.loaded
  /\ auth' = [auth EXCEPT !.tokenCache = <<>>, !.last = [kind |-> "clear"]]
  /\ UNCHANGED authFrame

\* time passes
ClockTick ==
  /\ auth.loaded
  /\ auth.ticks < MaxTicks
  /\ auth' = [auth EXCEPT !.now = @ + ClockStep, !.ticks = @ + 1,
                          !.last = NoAuthCall]
  /\ UNCHANGED authFrame

AuthNext ==
  \/ \E authUrl \in BOOLEAN, apiToken \in BOOLEAN : AuthLoad(authUrl, apiToken)
  \/ GetEagleViewBearerToken
  \/ \E i \in DOMAIN auth.pending, expires_in \in ExpiresIn : TokenFetched(i, expires_in)
  \/ \E i \in DOMAIN auth.pending : TokenFetchFailed(i)
  \/ ClearTokenCache
  \/ ClockTick

SpecAuth == Init /\ [][AuthNext]_vars

\* ------------------------------------------------------------------ claims
jobView(js) == <<js.phase, js.progress, js.result>>

\* C1: once a completed/failed poll response has been applied, the response
\* of an earlier-issued tick of the same job that arrives later changes
\* neither phase nor progress nor result.
C1_NoStaleRegression ==
  [][\A i \in DOMAIN requests : \A r \in Responses :
       (requests[i].early /\ requests[i].jobId = jobState.jobId /\ PollResponse(i, r))
         => jobView(jobState') = jobView(jobState)]_vars

\* C2: for one job at most one progress request is outstanding (issued and
\* neither resolved nor aborted) at any time.
C2_SingleOutstanding ==
  \A i, j \in DOMAIN requests :
    (i # j /\ requests[i].jobId = requests[j].jobId)
      => (requests[i].ctl = "aborted" \/ requests[j].ctl = "aborted")

\* C3: the rejection of a progress request that stopPolling aborted changes
\* no job state; in particular the phase does not become error.
C3_AbortIsSilent ==
  [][\A i \in DOMAIN requests :
       (requests[i].ctl = "aborted" /\ PollRejected(i)) => jobState' = jobState]_vars

\* C4: after handleDrawComplete has accepted a new capture, no response for
\* the job id of a previous capture modifies the job state.
C4_NoCrossJobResponse ==
  [][\A i \in DOMAIN requests : \A r \in Responses :
       (requests[i].jobId < nextJob /\ PollResponse(i, r)) => jobState' = jobState]_vars

\* C5: resetAnalysis leaves the initial job state and no poll timer, and the
\* phase then stays idle until the next drawComplete, whatever capture,
\* upload or poll completion arrives.
C5_ClearIsStable ==
  [][/\ (resetAnalysis \/ Close)
          => (jobState' = initialJobState /\ pollIntervalRef' = NoTimer)
     /\ (mounted /\ jobState.phase = "idle")
          => \/ jobState'.phase = "idle"
             \/ DrawMapNotReady
             \/ DrawNotConfigured
             \/ \E b \in DrawnBounds : DrawComplete(b)]_vars

\* C6: after unmount no poll timer is pending and no progress request is
\* outstanding, and none is created later.
C6_NothingAfterUnmount ==
  ~mounted =>
    /\ pollIntervalRef = NoTimer
    /\ \A i \in DOMAIN requests : requests[i].ctl = "aborted"

\* C7: a poll response whose result is null or absent keeps the stored
\* result, and a response with a non-null result stores that result, so the
\* stored result is always the most recent non-null result received.
C7_ResultMerge ==
  lastApplied.status \in Statuses =>
    jobState.result = IF lastApplied.result = NoResult
                        THEN lastApplied.prevResult
                        ELSE lastApplied.result

\* C7 witness: a result was stored and a response without a result has just
\* been applied
C7_Witness ==
  /\ lastApplied.status \in Statuses
  /\ lastApplied.result = NoResult
  /\ lastApplied.prevResult # NoResult
  /\ jobState.result = lastApplied.prevResult

\* C8: a "completed" poll response applied in phase queued or processing
\* gives phase completed, progress exactly 100 and error null.
C8_CompletedForces100 ==
  [][\A i \in DOMAIN requests : \A r \in Responses :
       (/\ mounted /\ r.status = "completed"
        /\ jobState.phase \in {"queued", "processing"}
        /\ PollResponse(i, r))
         => /\ jobState'.phase = "completed"
            /\ jobState'.progress = 100
            /\ jobState'.error = NoError]_vars

\* C9: a "failed" poll response gives phase error and a non-null error text:
\* the response's error field, else its message field, else a generic text.
C9_FailedHasErrorText ==
  [][\A i \in DOMAIN requests : \A r \in Responses :
       (mounted /\ r.status = "failed" /\ PollResponse(i, r))
         => /\ jobState'.phase = "error"
            /\ jobState'.error = IF r.error THEN ErrServer
                                 ELSE IF r.message THEN ErrMessage ELSE ErrGeneric]_vars

\* C10 as stated: by the poll tick at t0 + 300000 ms the job has gone to
\* phase error with the timeout message and the interval timer is cleared.
C10_TimeoutAtCeiling ==
  (pdf.mounted /\ pdf.lastTick.kind # "none" /\ pdf.lastTick.elapsed >= MAX_WAIT_TIME)
    => /\ pdf.lastTick.kind = "timeout"
       /\ pdf.phase = "error" /\ pdf.error = ErrTimeout
       /\ pdf.ref = NoTimer

\* C10 amended: a poll tick issues a progress request as long as at most
\* 300000 ms have elapsed since startPolling; the first tick at which more
\* has elapsed (t0 + 302500 ms with exact 2500 ms ticks) sets phase error
\* with the timeout message, clears the interval timer and issues no request.
C10_TimeoutAfterCeiling ==
  /\ pdf.lastTick.kind = "request" => pdf.lastTick.elapsed <= MAX_WAIT_TIME
  /\ pdf.lastTick.kind = "timeout"
       => /\ pdf.lastTick.elapsed > MAX_WAIT_TIME
          /\ pdf.ref = NoTimer
          /\ pdf.mounted => (pdf.phase = "error" /\ pdf.error = ErrTimeout)

\* C10 witness: with exact ticks the timeout tick runs at t0 + 302500 ms
C10_Witness ==
  /\ pdf.mounted
  /\ pdf.lastTick = [kind |-> "timeout", elapsed |-> MAX_WAIT_TIME + POLL_INTERVAL]
  /\ pdf.phase = "error" /\ pdf.error = ErrTimeout
  /\ pdf.ref = NoTimer

jobKept(j1, j2) ==
  /\ j2.phase = j1.phase /\ j2.jobId = j1.jobId
  /\ j2.result = j1.result /\ j2.polling = j1.polling

\* C11: openRoofAnalysis while the construction job is in phase processing
\* leaves that job's phase, jobId and result unchanged and its polling
\* running, and constructionAnalysisOverlay becomes false; the same holds for
\* openConstructionAnalysis while a roof job is processing.
C11_OtherJobSurvivesOpen ==
  [][/\ (/\ map.construction.phase = "processing" /\ map.construction.polling
          /\ ~map.roofAnalysisOverlay /\ map'.roofAnalysisOverlay)
         => (/\ jobKept(map.construction, map'.construction)
             /\ ~map'.constructionAnalysisOverlay)
     /\ (/\ map.roof.phase = "processing" /\ map.roof.polling
          /\ ~map.constructionAnalysisOverlay /\ map'.constructionAnalysisOverlay)
         => (/\ jobKept(map.roof, map'.roof)
             /\ ~map'.roofAnalysisOverlay)]_vars

\* C12: Escape, a map-type change or a street-view visibility change (and the
\* cancelDrawingOnly they may trigger) while a job is in phase queued,
\* processing or completed leaves that job's phase, jobId, result and polling
\* untouched.
C12_CancelKeepsJob ==
  [][(\/ Escape
      \/ \E satellite \in BOOLEAN : MapTypeChange(satellite)
      \/ StreetViewChanged)
       => \A k \in Panels :
            panelJob(map, k).phase \in {"queued", "processing", "completed"}
              => jobKept(panelJob(map, k), panelJob(map', k))]_vars

\* C13: once the overlay was cancelled while the construction job was
\* capturing, the job is idle and stays idle, the start request of that
\* capture is not sent and no polling starts.
C13_CancelledCaptureDies ==
  map.construction.cancelled
    => /\ map.construction.phase = "idle"
       /\ map.construction.flow # "upload"
       /\ ~map.construction.polling

activeModes(m) ==
  {x \in {"measure", "distance", "roof", "construction"} :
     \/ x = "measure" /\ m.measureMode
     \/ x = "distance" /\ m.distanceMode
     \/ x = "roof" /\ m.roofAnalysisOverlay
     \/ x = "construction" /\ m.constructionAnalysisOverlay}

\* C14: at most one of measureMode, distanceMode, roofAnalysisOverlay and
\* constructionAnalysisOverlay is active in every reachable state of MapView.
C14_OneModeActive == Cardinality(activeModes(map)) <= 1

\* C15: with the API base URL or the token not configured, handleDrawComplete
\* ends in phase error with the configuration message and jobId null, and no
\* rasterization, start request or progress request is ever made.
C15_ConfigErrorNoNetwork ==
  (~config.apiConfigured \/ ~config.hasToken)
    => /\ flows = {} /\ nextJob = 0
       /\ requests = <<>> /\ pollIntervalRef = NoTimer
       /\ jobState.jobId = NoJob
       /\ lastCall.kind \in {"none", "notConfigured"}
       /\ lastCall.kind = "notConfigured"
            => /\ jobState.phase = "error"
               /\ jobState.error = IF ~config.apiConfigured THEN ErrNotConfigured
                                    ELSE ErrMissingToken

\* C15 witness: handleDrawComplete has run with the token missing
C15_Witness ==
  /\ config.apiConfigured /\ ~config.hasToken
  /\ lastCall.kind = "notConfigured"
  /\ jobState.phase = "error" /\ jobState.error = ErrMissingToken
  /\ flows = {} /\ requests = <<>>

\* C16: for drawn bounds whose clamped width or height is <= 0,
\* handleDrawComplete ends in phase error with the "must stay within the map
\* view" message, and starts no capture and no start or progress request.
C16_OutsideRejected ==
  [][(/\ lastCall'.kind = "draw"
      /\ \/ clampBounds(lastCall'.bounds).width <= 0
         \/ clampBounds(lastCall'.bounds).height <= 0)
       => /\ jobState'.phase = "error" /\ jobState'.error = ErrOutside
          /\ jobState'.jobId = NoJob
          /\ flows' = flows /\ nextJob' = nextJob
          /\ Len(requests') = Len(requests)
          /\ pollIntervalRef' = NoTimer]_vars

\* C16 witness: a rectangle right of the map element (clamped width 0) has
\* been rejected
C16_Witness ==
  /\ lastCall.kind = "draw"
  /\ clampBounds(lastCall.bounds).width = 0
  /\ lastCall.bounds.width >= 10
  /\ jobState.phase = "error" /\ jobState.error = ErrOutside

pollingFor(id, timer, reqs) ==
  timer = id \/ \E i \in DOMAIN reqs : reqs[i].jobId = id

\* C17: when the start call fails with a non-2xx status or with a response
\* without job_id, the job ends in phase error with the message (the body
\* text, or the missing-job-ID text), jobId is null, and polling is not
\* running for that capture, then or at any later time.
C17_StartFailureIsError ==
  [][/\ (lastCall'.kind = "startFailed")
         => /\ mounted
                 => /\ jobState'.phase = "error"
                    /\ jobState'.jobId = NoJob
                    /\ jobState'.error # NoError
                    /\ lastCall'.why = "non2xx" => jobState'.error = ErrUpload
                    /\ lastCall'.why = "noJobId" => jobState'.error = ErrNoJobId
            /\ pollIntervalRef' = NoTimer
            /\ ~pollingFor(lastCall'.id, pollIntervalRef', requests')
     /\ \A id \in 1..nextJob :
          (pollingFor(id, pollIntervalRef', requests')
             /\ ~pollingFor(id, pollIntervalRef, requests))
            => [id |-> id, stage |-> "upload"] \in flows]_vars

\* C17 witness: the start call of capture 1 answered without job_id
C17_Witness ==
  /\ mounted
  /\ lastCall.kind = "startFailed" /\ lastCall.why = "noJobId"
  /\ jobState.phase = "error" /\ jobState.error = ErrNoJobId
  /\ jobState.jobId = NoJob
  /\ pollIntervalRef = NoTimer

\* the drag of the pointer-up just handled: it ended a drag in progress, and
\* its extent
upEndedDrag == canvas.event.kind = "up" /\ canvas.event.drawing
upWidth == Abs(canvas.event.position[1].x - canvas.event.start[1].x)
upHeight == Abs(canvas.event.position[1].y - canvas.event.start[1].y)

\* C18: a pointer-up ending a drag whose rectangle has width < 10 or
\* height < 10 clears the preview, does not call onDrawComplete and leaves
\* the dragging state.
C18_SmallDragSilent ==
  (upEndedDrag /\ (upWidth < 10 \/ upHeight < 10))
    => /\ canvas.preview = <<>>
       /\ canvas.emit = <<>>
       /\ ~canvas.isDrawing

\* C18 witness: a drag 5 px wide and at least 10 px high was released
C18_Witness ==
  /\ upEndedDrag /\ upWidth = 5 /\ upHeight >= 10
  /\ canvas.preview = <<>> /\ canvas.emit = <<>>

\* C19: a pointer-up ending a drag whose rectangle has width >= 10 and
\* height >= 10 calls onDrawComplete once with {x: min(startX, endX),
\* y: min(startY, endY), width: |endX - startX|, height: |endY - startY|} and
\* leaves the dragging state; a pointer-up with no drag in progress calls
\* nothing.
C19_DragEmitsOnce ==
  /\ (upEndedDrag /\ upWidth >= 10 /\ upHeight >= 10)
       => /\ canvas.emit =
               <<[x |-> Min(canvas.event.start[1].x, canvas.event.position[1].x),
                  y |-> Min(canvas.event.start[1].y, canvas.event.position[1].y),
                  width |-> upWidth, height |-> upHeight]>>
          /\ ~canvas.isDrawing /\ canvas.startPoint = <<>>
  /\ (canvas.event.kind = "up" /\ ~canvas.event.drawing) => canvas.emit = <<>>

\* C19 witness: a drag to the upper left, exactly 10 px wide, was released
C19_Witness ==
  /\ upEndedDrag /\ upWidth = 10 /\ upHeight >= 10
  /\ canvas.event.position[1].x < canvas.event.start[1].x
  /\ canvas.event.position[1].y < canvas.event.start[1].y
  /\ Len(canvas.emit) = 1
  /\ canvas.emit[1].x = canvas.event.position[1].x

\* C20: a pointerleave during a drag clears the dragging state and the start
\* point and calls nothing, and until the next pointer-down no event, a
\* pointer-up included, calls onDrawComplete.
C20_LeaveAbandonsDrag ==
  /\ (canvas.event.kind = "leave" /\ canvas.event.drawing)
       => canvas.abandoned /\ canvas.preview = <<>>
  /\ canvas.abandoned
       => ~canvas.isDrawing /\ canvas.startPoint = <<>> /\ canvas.emit = <<>>

\* C20 witness: a pointer-up arrived after the pointerleave that ended a drag
C20_Witness ==
  /\ canvas.abandoned
  /\ canvas.event.kind = "up"
  /\ canvas.emit = <<>> /\ ~canvas.isDrawing

\* C21: whenever the job of a panel is in phase capturing, queued or
\* processing and its drawing surface is rendered, the surface is disabled
\* (drawingDisabled is true), so that no further drawComplete is accepted.
InFlightPhases == {"capturing", "queued", "processing"}
C21_SurfaceDisabledInFlight ==
  \A k \in Panels :
    (overlayActive(map, k) /\ panelJob(map, k).phase \in InFlightPhases)
      => panelDrawingDisabled(map, k)

\* C22: the region handed to html2canvas is the drawn rectangle shifted by
\* the map element's offset and intersected with [0, W] x [0, H]; it lies
\* inside the map element and has positive width and height.
C22_CaptureRegionInsideMap ==
  (evaluation.fn = "clampedBounds" /\ evaluation.rasterized)
    => LET r == evaluation.region
           cx == evaluation.bounds.x - evaluation.offsetX
           cy == evaluation.bounds.y - evaluation.offsetY
           W == evaluation.mapRect.width
           H == evaluation.mapRect.height
       IN /\ r.x = Max(0, cx) /\ r.x + r.width = Min(W, cx + evaluation.bounds.width)
          /\ r.y = Max(0, cy) /\ r.y + r.height = Min(H, cy + evaluation.bounds.height)
          /\ 0 <= r.x /\ r.x + r.width <= W
          /\ 0 <= r.y /\ r.y + r.height <= H
          /\ r.width > 0 /\ r.height > 0

\* a rectangle cut by the right and the bottom edge of the map element
C22_Witness ==
  /\ evaluation.fn = "clampedBounds" /\ evaluation.rasterized
  /\ evaluation.region.width < evaluation.bounds.width
  /\ evaluation.region.height < evaluation.bounds.height
  /\ evaluation.region.x > 0

\* C23: every polling variant stores the same progress for a response: a
\* value in [0,1] times 100, rounded; any other number clamped to [0,100] and
\* rounded; the previously stored progress when the value is missing.
C23_UniformNormalization ==
  evaluation.fn = "progress"
    => LET expected ==
             IF Len(evaluation.value) = 0 THEN evaluation.prev
             ELSE LET h == evaluation.value[1] IN
                  IF h >= 0 /\ h <= 100 THEN MathRound(h * 100)
                  ELSE MathRound(Max(0, Min(10000, h)))
       IN /\ evaluation.roof = expected
          /\ evaluation.pdf = expected
          /\ evaluation.chained = expected * 100

\* C24: for both panels a section whose key is absent is not rendered; in a
\* present section every scalar field has a row, showing the dash when the value is
\* undefined and the value when there is one, and every list field shows its
\* badges, or "None noted" when empty or undefined.
C24_SparseResultRows ==
  evaluation.fn = "render"
    => LET section == evaluation.section
           view == evaluation.view
       IN IF ~section.present THEN ~view.shown
          ELSE /\ view.shown
               /\ \A i \in ScalarFields :
                    /\ view.rows[i] # "omitted"
                    /\ section.scalars[i] = "undefined" => view.rows[i] = Dash
                    /\ section.scalars[i] = "value" => view.rows[i] = "value"
               /\ \A i \in ListFields :
                    view.lists[i] = IF section.lists[i] = "items" THEN "badges"
                                    ELSE "None noted"

\* C25: in every reachable job state of RoofAnalysis, phases idle and
\* capturing have jobId null, and a non-null jobId is the id returned by the
\* start call of the most recently accepted capture.
C25_JobIdOfCurrentCapture ==
  /\ jobState.phase \in {"idle", "capturing"} => jobState.jobId = NoJob
  /\ jobState.jobId # NoJob
       => /\ jobState.jobId = nextJob
          /\ \A f \in flows : f.id # nextJob

\* C26: in area mode a click with at least 3 points recorded and within the
\* threshold of the first point sets the area, clears measureMode and leaves
\* the points unchanged; every other click in area mode appends one point and
\* leaves the area null.
C26_ClickClosesOrAppends ==
  [][\A near \in BOOLEAN :
       (map.measureMode /\ MapClick(near))
         => IF map.polygonPoints >= 3 /\ near
              THEN /\ map'.polygonArea /\ ~map'.measureMode
                   /\ map'.polygonPoints = map.polygonPoints
              ELSE /\ map'.polygonPoints = Min(MaxPoints, map.polygonPoints + 1)
                   /\ ~map'.polygonArea /\ map'.measureMode]_vars

\* a click closed a polygon of at least 3 points
C26_Witness ==
  /\ map.lastClick = "closed" /\ map.polygonArea /\ ~map.measureMode
  /\ map.polygonPoints >= 3

\* C27: distancePoints never exceeds 2; distance is non-null only with
\* exactly 2 distance points and distanceMode false; polygonArea is non-null
\* only with at least 3 polygon points and measureMode false.
C27_MeasurementShape ==
  /\ map.distancePoints <= 2
  /\ map.distance => (map.distancePoints = 2 /\ ~map.distanceMode)
  /\ map.polygonArea => (map.polygonPoints >= 3 /\ ~map.measureMode)

\* both results exist at once
C27_Witness ==
  /\ map.distance /\ map.distancePoints = 2
  /\ map.polygonArea /\ map.polygonPoints >= 3

\* C28: an Escape key press while measureMode (resp. distanceMode) is active
\* leaves that mode false, its points empty and its result null, whatever
\* other measurement result exists.
C28_EscapeCancelsMode ==
  [][Escape =>
       /\ map.measureMode
            => (~map'.measureMode /\ map'.polygonPoints = 0 /\ ~map'.polygonArea)
       /\ map.distanceMode
            => (~map'.distanceMode /\ map'.distancePoints = 0 /\ ~map'.distance)]_vars

\* C29: whenever an area result exists the area panel with its Clear button
\* is rendered, and whenever a distance result exists the distance panel with
\* its Clear button is rendered, also when both exist.
C29_ClearControlShown ==
  /\ map.polygonArea => areaPanelShown(map)
  /\ map.distance => distancePanelShown(map)

\* C30: a step that activates the roof drawing surface starts in satellite
\* view with zoom at least 21, and whenever roofAnalysisOverlay is set the map
\* is in satellite view.
C30_RoofEntryGated ==
  [][/\ (~map.roofAnalysisOverlay /\ map'.roofAnalysisOverlay)
          => (map.isSatelliteView /\ map.zoom >= MIN_ZOOM_FOR_ROOF_ANALYSIS)
     /\ map'.roofAnalysisOverlay => map'.isSatelliteView]_vars

\* C31: the downloaded report is named by the decoded filename*=UTF-8''
\* parameter when the header has one, also when a plain filename= parameter is
\* present; otherwise by the plain filename= parameter; otherwise by
\* "{job_id}.pdf".
extParams(params) == {i \in 1..Len(params) : params[i].kind = "ext"}
plainParams(params) == {i \in 1..Len(params) : params[i].kind = "plain"}
C31_ReportFilename ==
  evaluation.fn = "download"
    => LET params == evaluation.header.params
           ext == extParams(params)
           plain == plainParams(params)
       IN evaluation.filename =
            IF ext # {}
              THEN LET e == params[CHOOSE i \in ext : \A j \in ext : i <= j].value
                   IN IF malformed(e) THEN <<e>> ELSE <<decodeURIComponent(e)>>
            ELSE IF plain # {}
              THEN <<params[CHOOSE i \in plain : \A j \in plain : i <= j].value>>
            ELSE <<"job-1", ".pdf">>

\* C32: a step that applies a poll response sets the phase from the status
\* alone: completed for "completed", error for "failed", queued for "queued"
\* and processing for every other value; for a non-terminal status the
\* interval timer is left as it was.
C32_PhaseFromStatus ==
  [][lastApplied'.status # "none"
       => LET status == lastApplied'.status
          IN /\ jobState'.phase =
                  IF status = "completed" THEN "completed"
                  ELSE IF status = "failed" THEN "error"
                  ELSE IF status = "queued" THEN "queued"
                  ELSE "processing"
             /\ status \notin {"completed", "failed"}
                  => pollIntervalRef' = pollIntervalRef]_vars

\* an unlisted status was applied while the interval runs
C32_Witness ==
  /\ lastApplied.status = "other" /\ jobState.phase = "processing"
  /\ pollIntervalRef # NoTimer

\* C33: once a job has received a completed or failed response, or
\* stopPolling has cleared its interval, its interval timer is not live and no
\* progress request issued for it is current; and the step that applies a
\* terminal response leaves no interval timer.
C33_LoopTerminates ==
  /\ \A j \in pollStopped :
       /\ pollIntervalRef # j
       /\ \A i \in DOMAIN requests :
            requests[i].jobId = j => requests[i].ctl # "current"
  /\ lastApplied.status \in {"completed", "failed"} => pollIntervalRef = NoTimer

\* a failed response ended the loop of job 1 and a later job is polled
C33_Witness ==
  /\ 1 \in pollStopped /\ pollIntervalRef = 2
  /\ \E i \in DOMAIN requests : requests[i].jobId = 2 /\ requests[i].ctl = "current"

\* C34: when a progress request that was not aborted rejects (network error
\* or non-2xx status), the job of the mounted component is in phase error
\* with the message of the Error, the interval is cleared, no request is
\* issued in its place, and jobId and result are as before.
C34_PollFailureIsError ==
  [][\A i \in DOMAIN requests :
       (mounted /\ requests[i].ctl # "aborted" /\ PollRejected(i))
         => /\ jobState'.phase = "error" /\ jobState'.error = ErrNetwork
            /\ jobState'.jobId = jobState.jobId
            /\ jobState'.result = jobState.result
            /\ pollIntervalRef' = NoTimer
            /\ Len(requests') = Len(requests) - 1
            /\ \A k \in DOMAIN requests' : requests'[k].ctl # "current"]_vars

\* a poll failed after a result had been received
C34_Witness ==
  /\ jobState.phase = "error" /\ jobState.error = ErrNetwork
  /\ jobState.jobId # NoJob /\ jobState.result # NoResult
  /\ pollIntervalRef = NoTimer

\* C35: once the timeout tick has set phase error ("Timeout after 5
\* minutes"), a progress response that was still outstanding changes neither
\* the phase nor the progress nor the result.  The timeout tick clears the
\* interval, so every request answered in that state was issued before it.
C35_TimeoutIsTerminal ==
  [][(/\ pdf.mounted /\ pdf.phase = "error" /\ pdf.error = ErrTimeout
      /\ \E r \in PdfResponses : PdfResponse(r))
       => /\ pdf'.phase = pdf.phase
          /\ pdf'.progress = pdf.progress
          /\ pdf'.result = pdf.result]_vars

\* C36: a job is never left stuck.  Whenever the mounted component shows
\* phase capturing, queued or processing, something is still pending that can
\* move it on: a rasterization or an upload (a flow), an outstanding progress
\* request, or the poll interval.
C36_NeverStuck ==
  (mounted /\ jobState.phase \in {"capturing", "queued", "processing"})
    => \/ flows # {}
       \/ Len(requests) > 0
       \/ pollIntervalRef # NoTimer

\* C37: after every step of MapView the roof drawing overlay and the
\* construction drawing overlay are not both active and the roof panel and
\* the construction panel are not both visible; a step that makes the street
\* view visible leaves the roof analysis closed and a step that hides the
\* street view leaves the construction analysis closed.
C37_OneAnalysisAtATime ==
  [][/\ ~(map'.roofAnalysisOverlay /\ map'.constructionAnalysisOverlay)
     /\ ~(map'.roofAnalysisVisible /\ map'.constructionAnalysisVisible)
     /\ (~map.streetViewVisible /\ map'.streetViewVisible)
          => ~map'.roofAnalysisVisible /\ ~map'.roofAnalysisOverlay
     /\ (map.streetViewVisible /\ ~map'.streetViewVisible)
          => ~map'.constructionAnalysisVisible /\ ~map'.constructionAnalysisOverlay]_vars

\* the construction analysis was opened in street view over a satellite map,
\* where the roof analysis could have been open before
C37_Witness ==
  /\ map.constructionAnalysisVisible /\ map.constructionAnalysisOverlay
  /\ map.streetViewVisible /\ map.isSatelliteView
  /\ ~map.roofAnalysisVisible /\ ~map.roofAnalysisOverlay

\* C38: in every reachable job state the progress is a whole number from 0
\* to 100, whatever the server reported (nothing, a fraction of 1, a value
\* above 100) and whatever draw, poll, cancel, clear and close steps were taken.
C38_ProgressInRange ==
  jobState.progress \in 0..100

\* a response reporting 142.5 was applied to a job that is still processing
C38_Witness ==
  /\ mounted /\ jobState.phase = "processing" /\ jobState.jobId # NoJob
  /\ jobState.progress = 100

\* C39: a getEagleViewBearerToken call made while the cache holds a token and
\* the time is before its expiresAt returns that token and issues no
\* request; a configured call made with an empty cache (the state
\* clearTokenCache leaves) or at or after expiresAt issues a request; a call
\* without configuration and a failed fetch return null and leave the cache
\* as it was; a successful fetch stores the token with expiresAt = the time
\* read by its call + (expires_in - 60) seconds.
C39_TokenCache ==
  [][LET isCall == auth'.last.kind = "call" /\ auth.loaded
         fresh == Len(auth.tokenCache) = 1 /\ auth.now < auth.tokenCache[1].expiresAt
         configured == auth.authUrl /\ auth.apiToken
     IN /\ (isCall /\ configured /\ fresh)
             => /\ auth'.last.returned = <<auth.tokenCache[1].token>>
                /\ ~auth'.last.requested /\ auth'.pending = auth.pending
                /\ auth'.tokenCache = auth.tokenCache
        /\ (isCall /\ configured /\ ~fresh)
             => /\ auth'.last.requested
                /\ auth'.pending = Append(auth.pending, auth.now)
        /\ (isCall /\ ~configured)
             => /\ auth'.last.returned = <<>> /\ ~auth'.last.requested
                /\ auth'.pending = auth.pending
                /\ auth'.tokenCache = auth.tokenCache
        /\ auth'.last.kind = "failed"
             => auth'.last.returned = <<>> /\ auth'.tokenCache = auth.tokenCache
        /\ auth'.last.kind = "clear" => auth'.tokenCache = <<>>
        /\ auth'.last.kind = "fetched"
             => /\ Len(auth'.tokenCache) = 1
                /\ auth'.tokenCache[1].token = auth'.last.returned[1]
                /\ auth'.tokenCache[1].expiresAt
                     = auth'.last.start + (auth'.last.expires_in - 60) * 1000]_vars

\* a call answered from the cache with the second token the server issued,
\* after time has passed
C39_Witness ==
  /\ auth.last.kind = "call" /\ ~auth.last.requested
  /\ auth.last.returned = <<2>>
  /\ auth.now > 0

====
